---------------------------- MODULE Spec2Model ----------------------------
(***************************************************************************)
(* A model of the binreader crate: the BinReader trait (lib.rs) and its    *)
(* four implementations, RandomAccessBinReader, SliceRefBinReader,         *)
(* MmapBinReader (readers/) and ConsumingBinReader (consuming.rs).         *)
(*                                                                         *)
(* A reader is a record of the fields of its struct.  Every method is an   *)
(* operator from a reader (and its arguments) to the method's outcome; the *)
(* methods that move the cursor return the reader after the call as well.  *)
(* An outcome is Ok, Err (one of the crate's Error variants) or Panic: an  *)
(* index out of bounds always panics, an unsigned subtraction that goes    *)
(* below zero panics in a build with overflow checks and wraps in a build  *)
(* without them.  The build is part of the state (overflow_checks).        *)
(***************************************************************************)
EXTENDS Integers, Sequences, FiniteSets, TLC

\* ---------------------------------------------------------------- bounds
\* Width of usize in the model.  Offsets and lengths stay far below
\* 2^WordBits, as they stay far below usize::MAX in the program.
WordBits == 5
\* Largest number of bytes handed to a constructor.
MaxSize == 3
\* Largest initial offset handed to a constructor.
MaxInitialOffset == 1
\* Largest offset, and largest length, passed to a call.
MaxOffset == 5
MaxCount == 5
\* Largest step, forward or backward, passed to advance_by.
MaxStep == 3
\* Longest prefix handed to next_bytes_are, and the largest byte in one.
MaxPrefix == 2
MaxPrefixByte == 2
\* Largest number of bytes handed to a constructor where whole words are read.
MaxBuffer == 16
\* Number of call sites that share one reader.
MaxSites == 2

Usize == 2 ^ WordBits

VARIABLES
    reader,           \* the reader: the fields of its struct
    source,           \* the bytes the reader was constructed from
    overflow_checks,  \* the build: TRUE when arithmetic overflow panics
    last,             \* the last call: its name, arguments, outcome, and the reader before it
    run,              \* number of next_u8 calls since construction while nothing else moved the cursor, else -1
    encoded,          \* the number whose bytes the source is, with its type and byte order, when the source was made that way
    file,             \* the file a reader was mapped from: whether it is open, its lock, and the calls made on it
    sub_reader,       \* the reader sliced out of the reader and kept by the caller, when there is one
    received          \* the bytes next_u8 has handed out, in call order, each with the call site that got it

vars == <<reader, source, overflow_checks, last, run, encoded, file, sub_reader, received>>

Variants == {"RandomAccess", "SliceRef", "Mmap", "Consuming"}
Endidness == {"Big", "Little", "Unknown"}

\* TEST_DATA[..n]: byte i of the test data is i.
TEST_DATA(n) == [i \in 1..n |-> i - 1]

\* --------------------------------------------------------------- outcomes
\* An outcome: Ok with the bytes or the number returned (val) or the reader
\* returned (rdr), Err with the Error variant and its fields (a, b), or Panic.
NoReader ==
    [variant |-> "None", initial_offset |-> 0, position |-> 0,
     data |-> <<>>, size |-> 0, endidness |-> "Unknown"]
Ok(v) == [kind |-> "Ok", err |-> "None", a |-> 0, b |-> 0, val |-> v, rdr |-> NoReader]
OkReader(c) == [kind |-> "Ok", err |-> "None", a |-> 0, b |-> 0, val |-> <<>>, rdr |-> c]
Err(e, x, y) == [kind |-> "Err", err |-> e, a |-> x, b |-> y, val |-> <<>>, rdr |-> NoReader]
Panic(why) == [kind |-> "Panic", err |-> why, a |-> 0, b |-> 0, val |-> <<>>, rdr |-> NoReader]

\* Marks a usize computation that panicked.
PANIC == -1

\* a - b on usize.
USub(a, b) ==
    IF a >= b THEN a - b
    ELSE IF overflow_checks THEN PANIC
    ELSE a - b + Usize

\* a + b on usize.
UAdd(a, b) ==
    IF a + b < Usize THEN a + b
    ELSE IF overflow_checks THEN PANIC
    ELSE a + b - Usize

\* (x as isize + n) as usize: the cast wraps, it never panics.
AsUsize(x) == IF x < 0 THEN x + Usize ELSE x % Usize

\* &s[from..to] with 0-based bounds, where it does not panic.
Slice(s, from, to) == SubSeq(s, from + 1, to)

\* ----------------------------------------------------------- constructors
RandomAccess_new(data, initial_offset, endidness) ==
    [variant |-> "RandomAccess", initial_offset |-> initial_offset, position |-> 0,
     data |-> data, size |-> Len(data), endidness |-> endidness]

SliceRef_new(data, initial_offset, endidness) ==
    [variant |-> "SliceRef", initial_offset |-> initial_offset, position |-> 0,
     data |-> data, size |-> Len(data), endidness |-> endidness]

\* Mmap_new starting the position at the initial offset instead of 0.
Mmap_new_PositionAtOffset(data, initial_offset, endidness, maybe_mapped_file) ==
    [variant |-> "Mmap", initial_offset |-> initial_offset, position |-> initial_offset,
     data |-> data, size |-> Len(data), endidness |-> endidness,
     maybe_mapped_file |-> maybe_mapped_file]

\* maybe_mapped_file is "Some" when the map is of a file, "None" otherwise.
Mmap_new(data, initial_offset, endidness, maybe_mapped_file) ==
    [variant |-> "Mmap", initial_offset |-> initial_offset, position |-> 0,
     data |-> data, size |-> Len(data), endidness |-> endidness,
     maybe_mapped_file |-> maybe_mapped_file]

\* The consuming reader has no position: its cursor is what is gone from data.
Consuming_new(data, initial_offset, endidness) ==
    [variant |-> "Consuming", initial_offset |-> initial_offset, position |-> 0,
     data |-> data, size |-> Len(data), endidness |-> endidness]

from_slice_with_offset(variant, slice, initial_offset, endidness) ==
    CASE variant = "RandomAccess" -> RandomAccess_new(slice, initial_offset, endidness)
      [] variant = "SliceRef" -> SliceRef_new(slice, initial_offset, endidness)
      [] variant = "Mmap" -> Mmap_new(slice, initial_offset, endidness, "None")
      [] variant = "Consuming" -> Consuming_new(slice, initial_offset, endidness)

\* The file a reader is mapped from: open or not, its shared lock held or
\* not, and how often lock and unlock were called on it.
NoFile == [open |-> FALSE, locked |-> FALSE, lock_calls |-> 0, unlock_calls |-> 0]

\* What a constructor that touches a file leaves behind: the reader (NoReader
\* when it failed), the outcome and the file.
Built(r, res, f) == [r |-> r, res |-> res, file |-> f]

\* MmapBinReader::from_file_with_offset.  Opening, locking and mapping can
\* each fail; the error carries the step that failed (1, 2, 3).  A File that
\* goes out of scope is closed, and closing it gives up its lock.
Mmap_from_file_with_offset(contents, initial_offset, endidness, open_ok, lock_ok, map_ok) ==
    IF ~open_ok THEN Built(NoReader, Err("IoError", 1, 0), NoFile)
    ELSE IF ~lock_ok
         THEN Built(NoReader, Err("IoError", 2, 0),
                    [open |-> FALSE, locked |-> FALSE, lock_calls |-> 1, unlock_calls |-> 0])
    ELSE IF ~map_ok
         THEN Built(NoReader, Err("IoError", 3, 0),
                    [open |-> FALSE, locked |-> FALSE, lock_calls |-> 1, unlock_calls |-> 0])
    ELSE Built(Mmap_new(contents, initial_offset, endidness, "Some"), Ok(<<>>),
               [open |-> TRUE, locked |-> TRUE, lock_calls |-> 1, unlock_calls |-> 0])

\* MmapBinReader::from_slice_with_offset: an anonymous map, no file.
Mmap_from_slice_with_offset(slice, initial_offset, endidness, map_ok) ==
    IF ~map_ok THEN Built(NoReader, Err("IoError", 3, 0), NoFile)
    ELSE Built(Mmap_new(slice, initial_offset, endidness, "None"), Ok(<<>>), NoFile)

\* Drop for MmapBinReader that leaves the file locked.
Mmap_drop_NoUnlock(r, f, unlock_ok) ==
    Built(NoReader, Ok(<<>>), f)

\* Drop for MmapBinReader: unlock().unwrap() when there is a file, which is
\* closed afterwards with the rest of the reader.
Mmap_drop(r, f, unlock_ok) ==
    IF r.maybe_mapped_file = "Some"
    THEN Built(NoReader, IF unlock_ok THEN Ok(<<>>) ELSE Panic("unwrap"),
               [open |-> FALSE, locked |-> FALSE, lock_calls |-> f.lock_calls,
                unlock_calls |-> f.unlock_calls + 1])
    ELSE Built(NoReader, Ok(<<>>), f)

\* -------------------------------------------------------------- accessors
RandomAccess_size(r) == Len(r.data)
SliceRef_size(r) == Len(r.data)
Mmap_size(r) == Len(r.data)
Consuming_size(r) == r.size

size(r) ==
    CASE r.variant = "RandomAccess" -> RandomAccess_size(r)
      [] r.variant = "SliceRef" -> SliceRef_size(r)
      [] r.variant = "Mmap" -> Mmap_size(r)
      [] r.variant = "Consuming" -> Consuming_size(r)

RandomAccess_current_offset(r) == r.position + r.initial_offset
SliceRef_current_offset(r) == r.position + r.initial_offset
Mmap_current_offset(r) == r.initial_offset + r.position
\* Consuming_current_offset counting what is left instead of what is gone.
Consuming_current_offset_FromRemaining(r) == Len(r.data) + r.initial_offset

Consuming_current_offset(r) == (r.size - Len(r.data)) + r.initial_offset

current_offset(r) ==
    CASE r.variant = "RandomAccess" -> RandomAccess_current_offset(r)
      [] r.variant = "SliceRef" -> SliceRef_current_offset(r)
      [] r.variant = "Mmap" -> Mmap_current_offset(r)
      [] r.variant = "Consuming" -> Consuming_current_offset(r)

\* The consuming reader answers initial_offset() with its current offset.
Consuming_initial_offset(r) == Consuming_current_offset(r)

initial_offset(r) ==
    IF r.variant = "Consuming" THEN Consuming_initial_offset(r) ELSE r.initial_offset

Consuming_lower_offset_limit(r) == r.initial_offset

lower_offset_limit(r) ==
    IF r.variant = "Consuming" THEN Consuming_lower_offset_limit(r) ELSE initial_offset(r)

upper_offset_limit(r) == size(r) + initial_offset(r)

\* remaining() is PANIC when its subtraction panics.
RandomAccess_remaining(r) == USub(RandomAccess_size(r), r.position)
SliceRef_remaining(r) == USub(Len(r.data), r.position)
Mmap_remaining(r) == USub(Mmap_size(r), r.position)
Consuming_remaining(r) == Len(r.data)

remaining(r) ==
    CASE r.variant = "RandomAccess" -> RandomAccess_remaining(r)
      [] r.variant = "SliceRef" -> SliceRef_remaining(r)
      [] r.variant = "Mmap" -> Mmap_remaining(r)
      [] r.variant = "Consuming" -> Consuming_remaining(r)

\* is_empty() is remaining() == 0 but for the consuming reader, which asks
\* its buffer; it panics when remaining() does.
is_empty_panics(r) == r.variant # "Consuming" /\ remaining(r) = PANIC

Consuming_is_empty(r) == Len(r.data) = 0

is_empty(r) ==
    IF r.variant = "Consuming" THEN Consuming_is_empty(r) ELSE remaining(r) = 0

\* ------------------------------------------------------------- validation
validate_offset(r, offset, sz) ==
    IF sz > 0 /\ is_empty_panics(r) THEN Panic("overflow")
    ELSE IF sz > 0 /\ is_empty(r) THEN Err("NoMoreData", 0, 0)
    ELSE IF offset < lower_offset_limit(r) THEN Err("OffsetTooSmall", offset, 0)
    ELSE IF offset > upper_offset_limit(r) THEN Err("OffsetTooLarge", offset, 0)
    ELSE IF USub(upper_offset_limit(r), sz) = PANIC THEN Panic("overflow")
    ELSE IF offset > USub(upper_offset_limit(r), sz)
         THEN IF remaining(r) = PANIC THEN Panic("overflow")
              ELSE Err("NotEnoughData", sz, remaining(r))
    ELSE Ok(<<>>)

\* ---------------------------------------------------------- at-offset reads
\* The byte at index idx of s, or an index-out-of-bounds panic.
Index(s, idx) ==
    IF idx = PANIC THEN Panic("overflow")
    ELSE IF idx >= Len(s) THEN Panic("index")
    ELSE Ok(<<s[idx + 1]>>)

\* &s[from..to], or a panic when the range is not inside s.
IndexRange(s, from, to) ==
    IF from = PANIC \/ to = PANIC THEN Panic("overflow")
    ELSE IF from > to \/ to > Len(s) THEN Panic("index")
    ELSE Ok(Slice(s, from, to))

BinReader_u8_at(r, offset) ==
    LET v == validate_offset(r, offset, 0) IN
    IF v.kind # "Ok" THEN v
    ELSE Index(r.data, USub(offset, initial_offset(r)))

Mmap_u8_at(r, offset) ==
    LET v == validate_offset(r, offset, 0) IN
    IF v.kind # "Ok" THEN v
    ELSE Index(r.data, USub(offset, r.initial_offset))

Consuming_u8_at(r, offset) ==
    LET v == validate_offset(r, offset, 0) IN
    IF v.kind # "Ok" THEN v
    ELSE Index(r.data, USub(offset, current_offset(r)))

u8_at(r, offset) ==
    CASE r.variant = "Consuming" -> Consuming_u8_at(r, offset)
      [] r.variant = "Mmap" -> Mmap_u8_at(r, offset)
      [] OTHER -> BinReader_u8_at(r, offset)

\* The loop of bytes_at from index i on, buf holding the bytes read so far.
RECURSIVE BinReader_bytes_at_loop(_, _, _, _, _)
BinReader_bytes_at_loop(r, offset, n, i, buf) ==
    IF i >= n THEN Ok(buf)
    ELSE LET b == u8_at(r, offset + i) IN
         IF b.kind # "Ok" THEN b
         ELSE BinReader_bytes_at_loop(r, offset, n, i + 1, buf \o b.val)

\* bytes_at(offset, buf) with a buffer of n bytes: Ok carries the filled buffer.
BinReader_bytes_at(r, offset, n) ==
    LET v == validate_offset(r, offset, n) IN
    IF v.kind # "Ok" THEN v
    ELSE BinReader_bytes_at_loop(r, offset, n, 0, <<>>)

\* The consuming reader indexes its buffer with the offset itself.
RECURSIVE Consuming_bytes_at_loop(_, _, _, _, _)
Consuming_bytes_at_loop(r, offset, n, i, buf) ==
    IF i >= n THEN Ok(buf)
    ELSE LET b == Index(r.data, offset + i) IN
         IF b.kind # "Ok" THEN b
         ELSE Consuming_bytes_at_loop(r, offset, n, i + 1, buf \o b.val)

Consuming_bytes_at(r, offset, n) ==
    LET v == validate_offset(r, offset, n) IN
    IF v.kind # "Ok" THEN v
    ELSE Consuming_bytes_at_loop(r, offset, n, 0, <<>>)

bytes_at(r, offset, n) ==
    IF r.variant = "Consuming" THEN Consuming_bytes_at(r, offset, n)
    ELSE BinReader_bytes_at(r, offset, n)

range(r, start, end) ==
    LET len == USub(end, start) IN
    IF len = PANIC THEN Panic("overflow")
    ELSE LET v == validate_offset(r, start, len) IN
         IF v.kind # "Ok" THEN v
         ELSE IndexRange(r.data, start, end)

subseq(r, offset, num_bytes) ==
    LET v == validate_offset(r, offset, num_bytes) IN
    IF v.kind # "Ok" THEN v
    ELSE range(r, offset, offset + num_bytes)

SliceRef_get_remaining(r) == IndexRange(r.data, r.position, Len(r.data))

BinReader_get_remaining(r) == range(r, current_offset(r), upper_offset_limit(r))

get_remaining(r) ==
    IF r.variant = "SliceRef" THEN SliceRef_get_remaining(r)
    ELSE BinReader_get_remaining(r)

\* Ok carries the relative offset as a one-element sequence.
relative_offset(r, abs_offset) ==
    LET v == validate_offset(r, abs_offset, 0) IN
    IF v.kind # "Ok" THEN v
    ELSE IF USub(abs_offset, current_offset(r)) = PANIC THEN Panic("overflow")
    ELSE Ok(<<USub(abs_offset, current_offset(r))>>)

current_u8(r) == u8_at(r, current_offset(r))

\* prefix.iter().zip(buf).all(|(v1, v2)| v1 == v2): zip stops at the shorter.
zip_all_eq(prefix, buf) ==
    \A i \in 1..(IF Len(prefix) < Len(buf) THEN Len(prefix) ELSE Len(buf)) :
        prefix[i] = buf[i]

\* Vec::with_capacity(prefix.len()) has length 0, so the loop that is meant
\* to fill it with zeros runs over 0..0 and bytes_at is handed an empty buffer.
next_bytes_are(r, prefix) ==
    LET v == validate_offset(r, current_offset(r), Len(prefix)) IN
    IF v.kind # "Ok" THEN v
    ELSE LET buf_len == 0
             buf == bytes_at(r, current_offset(r), buf_len)
         IN IF buf.kind # "Ok" THEN buf
            ELSE Ok(<<zip_all_eq(prefix, buf.val)>>)

\* ------------------------------------------------------- moving the cursor
\* What a call that takes the reader by &self or &mut self leaves behind:
\* the reader after the call and the call's outcome.
Out(r, res) == [r |-> r, res |-> res]

\* adj_pos is the same in the three readers that keep a position.
adj_pos(r, amt) == [r EXCEPT !.position = AsUsize(r.position + amt)]

RandomAccess_advance_to(r, offset) ==
    LET v == validate_offset(r, offset, 0) IN
    IF v.kind # "Ok" THEN Out(r, v)
    ELSE Out([r EXCEPT !.position = offset], Ok(<<>>))

SliceRef_advance_to(r, offset) ==
    LET v == validate_offset(r, offset, 0) IN
    IF v.kind # "Ok" THEN Out(r, v)
    ELSE IF USub(offset, r.initial_offset) = PANIC THEN Out(r, Panic("overflow"))
    ELSE Out([r EXCEPT !.position = USub(offset, r.initial_offset)], Ok(<<>>))

Mmap_advance_to(r, offset) ==
    LET v == validate_offset(r, offset, 0) IN
    IF v.kind # "Ok" THEN Out(r, v)
    ELSE IF USub(offset, r.initial_offset) = PANIC THEN Out(r, Panic("overflow"))
    ELSE Out([r EXCEPT !.position = USub(offset, r.initial_offset)], Ok(<<>>))

\* advance_by of the consuming reader takes a usize; Bytes::advance panics
\* when asked to go past the end of the buffer.
Consuming_advance_by(r, bytes) ==
    IF UAdd(current_offset(r), bytes) = PANIC THEN Out(r, Panic("overflow"))
    ELSE LET v == validate_offset(r, UAdd(current_offset(r), bytes), 0) IN
         IF v.kind # "Ok" THEN Out(r, v)
         ELSE IF bytes > Len(r.data) THEN Out(r, Panic("index"))
         ELSE Out([r EXCEPT !.data = Slice(r.data, bytes, Len(r.data))], Ok(<<>>))

Consuming_advance_to(r, offset) ==
    LET v == validate_offset(r, offset, 0) IN
    IF v.kind # "Ok" THEN Out(r, v)
    ELSE IF USub(offset, current_offset(r)) = PANIC THEN Out(r, Panic("overflow"))
    ELSE Consuming_advance_by(r, USub(offset, current_offset(r)))

advance_to(r, offset) ==
    CASE r.variant = "RandomAccess" -> RandomAccess_advance_to(r, offset)
      [] r.variant = "SliceRef" -> SliceRef_advance_to(r, offset)
      [] r.variant = "Mmap" -> Mmap_advance_to(r, offset)
      [] r.variant = "Consuming" -> Consuming_advance_to(r, offset)

\* The random-access reader validates its position, not its offset.
RandomAccess_advance_by(r, bytes) ==
    LET v == validate_offset(r, AsUsize(r.position + bytes), 0) IN
    IF v.kind # "Ok" THEN Out(r, v)
    ELSE Out(adj_pos(r, bytes), Ok(<<>>))

SliceRef_advance_by(r, num_bytes) ==
    LET v == validate_offset(r, AsUsize(current_offset(r) + num_bytes), 0) IN
    IF v.kind # "Ok" THEN Out(r, v)
    ELSE Out(adj_pos(r, num_bytes), Ok(<<>>))

Mmap_advance_by(r, num_bytes) ==
    LET v == validate_offset(r, AsUsize(current_offset(r) + num_bytes), 0) IN
    IF v.kind # "Ok" THEN Out(r, v)
    ELSE Out(adj_pos(r, num_bytes), Ok(<<>>))

advance_by(r, num_bytes) ==
    CASE r.variant = "RandomAccess" -> RandomAccess_advance_by(r, num_bytes)
      [] r.variant = "SliceRef" -> SliceRef_advance_by(r, num_bytes)
      [] r.variant = "Mmap" -> Mmap_advance_by(r, num_bytes)
      [] r.variant = "Consuming" -> Consuming_advance_by(r, num_bytes)

\* next_u8 of the readers that keep a position: validate one byte at the
\* cursor, step, and index the byte just passed.
\* RandomAccess_next_u8 indexing the byte at the new position instead of the
\* one just passed.
RandomAccess_next_u8_IndexAfter(r) ==
    LET v == validate_offset(r, current_offset(r), 1) IN
    IF v.kind # "Ok" THEN Out(r, v)
    ELSE LET moved == adj_pos(r, 1) IN
         Out(moved, Index(moved.data, moved.position))

RandomAccess_next_u8(r) ==
    LET v == validate_offset(r, current_offset(r), 1) IN
    IF v.kind # "Ok" THEN Out(r, v)
    ELSE LET moved == adj_pos(r, 1) IN
         Out(moved, Index(moved.data, USub(moved.position, 1)))

\* SliceRef_next_u8 stepping before it validates.
SliceRef_next_u8_StepFirst(r) ==
    LET moved == adj_pos(r, 1)
        v == validate_offset(r, current_offset(r), 1)
    IN IF v.kind # "Ok" THEN Out(moved, v)
       ELSE Out(moved, Index(moved.data, USub(moved.position, 1)))

SliceRef_next_u8(r) ==
    LET v == validate_offset(r, current_offset(r), 1) IN
    IF v.kind # "Ok" THEN Out(r, v)
    ELSE LET moved == adj_pos(r, 1) IN
         Out(moved, Index(moved.data, USub(moved.position, 1)))

\* Mmap_next_u8 handing out the byte at the cursor without stepping.
Mmap_next_u8_NoStep(r) ==
    LET v == validate_offset(r, current_offset(r), 1) IN
    IF v.kind # "Ok" THEN Out(r, v)
    ELSE Out(r, Index(r.data, r.position))

Mmap_next_u8(r) ==
    LET v == validate_offset(r, current_offset(r), 1) IN
    IF v.kind # "Ok" THEN Out(r, v)
    ELSE LET moved == adj_pos(r, 1) IN
         Out(moved, Index(moved.data, USub(moved.position, 1)))

Consuming_next_u8(r) ==
    IF is_empty(r) THEN Out(r, Err("NoMoreData", 0, 0))
    ELSE Out([r EXCEPT !.data = Tail(r.data)], Ok(<<Head(r.data)>>))

next_u8(r) ==
    CASE r.variant = "RandomAccess" -> RandomAccess_next_u8(r)
      [] r.variant = "SliceRef" -> SliceRef_next_u8(r)
      [] r.variant = "Mmap" -> Mmap_next_u8(r)
      [] r.variant = "Consuming" -> Consuming_next_u8(r)

\* The trait's next_n_bytes, used by the slice and the mmap reader.
BinReader_next_n_bytes(r, num_bytes) ==
    LET v == validate_offset(r, current_offset(r), num_bytes) IN
    IF v.kind # "Ok" THEN Out(r, v)
    ELSE LET start == USub(current_offset(r), initial_offset(r))
             data == IndexRange(r.data, start, start + num_bytes)
         IN IF data.kind # "Ok" THEN Out(r, data)
            ELSE LET adv == advance_by(r, num_bytes) IN
                 IF adv.res.kind # "Ok" THEN adv ELSE Out(adv.r, data)

\* The random-access reader steps first and slices at the new offset.
RandomAccess_next_n_bytes(r, num_bytes) ==
    LET v == validate_offset(r, current_offset(r), num_bytes) IN
    IF v.kind # "Ok" THEN Out(r, v)
    ELSE LET moved == adj_pos(r, num_bytes) IN
         Out(moved, IndexRange(moved.data, current_offset(moved),
                               current_offset(moved) + num_bytes))

\* Bytes::split_to panics when asked for more than the buffer holds.
Consuming_next_n_bytes(r, num_bytes) ==
    LET v == validate_offset(r, current_offset(r), num_bytes) IN
    IF v.kind # "Ok" THEN Out(r, v)
    ELSE IF num_bytes > Len(r.data) THEN Out(r, Panic("index"))
    ELSE Out([r EXCEPT !.data = Slice(r.data, num_bytes, Len(r.data))],
             Ok(Slice(r.data, 0, num_bytes)))

next_n_bytes(r, num_bytes) ==
    CASE r.variant = "RandomAccess" -> RandomAccess_next_n_bytes(r, num_bytes)
      [] r.variant = "Consuming" -> Consuming_next_n_bytes(r, num_bytes)
      [] OTHER -> BinReader_next_n_bytes(r, num_bytes)

\* The loop of next_bytes from index i on, buf holding the bytes read so far.
RECURSIVE next_bytes_loop(_, _, _, _)
next_bytes_loop(r, n, i, buf) ==
    IF i >= n THEN Out(r, Ok(buf))
    ELSE LET b == next_u8(r) IN
         IF b.res.kind # "Ok" THEN b
         ELSE next_bytes_loop(b.r, n, i + 1, buf \o b.res.val)

\* next_bytes(buf) with a buffer of n bytes: Ok carries the filled buffer.
next_bytes(r, n) == next_bytes_loop(r, n, 0, <<>>)

\* ------------------------------------------------------------ numeric reads
\* The widths, in bytes, of the multi-byte numbers (NUMBERS).
Widths == {2, 4, 8, 16}

\* The number types the methods are generated for (NUMBERS), widths in bytes.
NUMBERS ==
    {[ident |-> "u16", width |-> 2, signed |-> FALSE],
     [ident |-> "i16", width |-> 2, signed |-> TRUE],
     [ident |-> "u32", width |-> 4, signed |-> FALSE],
     [ident |-> "i32", width |-> 4, signed |-> TRUE],
     [ident |-> "u64", width |-> 8, signed |-> FALSE],
     [ident |-> "i64", width |-> 8, signed |-> TRUE],
     [ident |-> "u128", width |-> 16, signed |-> FALSE],
     [ident |-> "i128", width |-> 16, signed |-> TRUE]}

\* A number of w bytes is the function v on 0..w-1 where v[j] is its digit of
\* weight 256^j: the unsigned value is the sum of v[j] * 256^j, the signed
\* value its two's complement reading.  (128-bit values do not fit a machine
\* integer of the checker, their digits do.)
\* T::from_be_bytes: the first byte is the most significant.
from_be_bytes(buf) == [j \in 0..(Len(buf) - 1) |-> buf[Len(buf) - j]]

\* from_le_bytes taking the first byte as the most significant.
from_le_bytes_MostFirst(buf) == [j \in 0..(Len(buf) - 1) |-> buf[Len(buf) - j]]

\* T::from_le_bytes: the first byte is the least significant.
from_le_bytes(buf) == [j \in 0..(Len(buf) - 1) |-> buf[j + 1]]

\* T::to_be_bytes and T::to_le_bytes of a number of w bytes.
to_be_bytes(v, w) == [i \in 1..w |-> v[w - i]]

to_le_bytes(v, w) == [i \in 1..w |-> v[i - 1]]

\* 0, T::MAX and T::MIN of a number type, and a value in between.
Zero(T) == [j \in 0..(T.width - 1) |-> 0]

T_MAX(T) ==
    [j \in 0..(T.width - 1) |-> IF T.signed /\ j = T.width - 1 THEN 127 ELSE 255]

T_MIN(T) ==
    [j \in 0..(T.width - 1) |-> IF T.signed /\ j = T.width - 1 THEN 128 ELSE 0]

Interior(T) == [j \in 0..(T.width - 1) |-> j + 1]

BoundaryValues(T) == {Zero(T), T_MAX(T), T_MIN(T), Interior(T)}

\* next_uN_be and next_uN_le, N = 8 * width.
next_numname_numend(r, width, numend) ==
    LET nb == next_bytes(r, width) IN
    IF nb.res.kind # "Ok" THEN nb
    ELSE Out(nb.r, Ok(<<IF numend = "be" THEN from_be_bytes(nb.res.val)
                        ELSE from_le_bytes(nb.res.val)>>))

\* next_numname reading little-endian whatever the reader's endidness is.
next_numname_AlwaysLittle(r, width) ==
    next_numname_numend(r, width, "le")

\* next_uN: picks the byte order from the reader's endidness.
next_numname(r, width) ==
    CASE r.endidness = "Big" -> next_numname_numend(r, width, "be")
      [] r.endidness = "Little" -> next_numname_numend(r, width, "le")
      [] r.endidness = "Unknown" -> Out(r, Err("UnknownEndidness", 0, 0))

\* next_i8 reads one byte; its from_be_bytes has nothing to reorder.
next_i8(r) ==
    LET nb == next_bytes(r, 1) IN
    IF nb.res.kind # "Ok" THEN nb
    ELSE Out(nb.r, Ok(<<from_be_bytes(nb.res.val)>>))

\* uN_be_at and uN_le_at, N = 8 * width.
numname_numend_at(r, offset, width, numend) ==
    LET buf == bytes_at(r, offset, width) IN
    IF buf.kind # "Ok" THEN buf
    ELSE Ok(<<IF numend = "be" THEN from_be_bytes(buf.val)
              ELSE from_le_bytes(buf.val)>>)

\* uN_at: picks the byte order from the reader's endidness.
numname_at(r, offset, width) ==
    CASE r.endidness = "Big" -> numname_numend_at(r, offset, width, "be")
      [] r.endidness = "Little" -> numname_numend_at(r, offset, width, "le")
      [] r.endidness = "Unknown" -> Err("UnknownEndidness", 0, 0)

\* ---------------------------------------------------------------- slicing
next_n_bytes_as_reader(r, num_bytes) ==
    LET sub == subseq(r, current_offset(r), num_bytes) IN
    IF sub.kind # "Ok" THEN Out(r, sub)
    ELSE LET res == SliceRef_new(sub.val, 0, r.endidness)
             adv == advance_by(r, num_bytes)
         IN IF adv.res.kind # "Ok" THEN adv ELSE Out(adv.r, OkReader(res))

\* from_slice_with_offset of the child, with the parent's offset at the time
\* of the call as the child's initial offset.
next_n_bytes_as_reader_retain_offset(r, num_bytes) ==
    LET sub == subseq(r, current_offset(r), num_bytes) IN
    IF sub.kind # "Ok" THEN Out(r, sub)
    ELSE LET res == SliceRef_new(sub.val, current_offset(r), r.endidness)
             adv == advance_by(r, num_bytes)
         IN IF adv.res.kind # "Ok" THEN adv ELSE Out(adv.r, OkReader(res))

\* from_slice of the child: its initial offset is 0.
slice_reader(r, start, end) ==
    LET rg == range(r, start, end) IN
    IF rg.kind # "Ok" THEN rg
    ELSE OkReader(SliceRef_new(rg.val, 0, r.endidness))

\* The child's initial offset is the parent's current offset.
slice_reader_retain_offset(r, start, end) ==
    LET rg == range(r, start, end) IN
    IF rg.kind # "Ok" THEN rg
    ELSE OkReader(SliceRef_new(rg.val, current_offset(r), r.endidness))

\* =================================================================== state
Offsets == 0..MaxOffset
Counts == 0..MaxCount
Steps == (0 - MaxStep)..MaxStep
\* The offsets handed to the multi-byte reads at an offset: those a reader
\* may start at.
StartOffsets == 0..MaxInitialOffset
\* The prefixes handed to next_bytes_are.
Prefixes == UNION {[1..n -> 0..MaxPrefixByte] : n \in 0..MaxPrefix}

\* No number was encoded into the source.
NoNumber == [ident |-> "None", width |-> 0, signed |-> FALSE, value |-> <<>>, numend |-> "None"]

\* The state after construction: any of the four readers over the first n
\* bytes of the test data, with any initial offset, in either build.
InitOver(sizes, endidnesses) ==
    /\ overflow_checks \in BOOLEAN
    /\ \E variant \in Variants, n \in sizes, k \in 0..MaxInitialOffset,
          e \in endidnesses :
          /\ source = TEST_DATA(n)
          /\ reader = from_slice_with_offset(variant, TEST_DATA(n), k, e)
          /\ last = [op |-> "new", a |-> k, b |-> n, res |-> Ok(<<>>),
                     pre |-> from_slice_with_offset(variant, TEST_DATA(n), k, e)]
    /\ run = 0
    /\ encoded = NoNumber
    /\ file = NoFile
    /\ sub_reader = NoReader
    /\ received = <<>>

InitWith(endidnesses) == InitOver(0..MaxSize, endidnesses)

Init == InitWith({"Unknown"})

\* The calls that move the cursor by something else than one next_u8.
Moving == {"advance_to", "advance_by", "next_n_bytes", "next_n_bytes_as_reader",
           "next_n_bytes_as_reader_retain_offset",
           "next_bytes", "next_numname_numend", "next_numname", "next_i8"}

\* A call op(a, b) whose outcome is out, on a reader that exists.  A panic
\* ends the program.
Call(op, a, b, out) ==
    /\ reader.variant # "None"
    /\ last.res.kind # "Panic"
    /\ reader' = out.r
    /\ last' = [op |-> op, a |-> a, b |-> b, res |-> out.res, pre |-> reader]
    /\ run' = IF run < 0 \/ op \in Moving THEN -1
              ELSE IF op = "next_u8" /\ out.res.kind = "Ok" THEN run + 1
              ELSE run
    /\ UNCHANGED <<source, overflow_checks, encoded, file, sub_reader, received>>

\* ----------------------------------------------------------------- actions
ValidateOffset ==
    \E offset \in Offsets, sz \in Counts :
        Call("validate_offset", offset, sz, Out(reader, validate_offset(reader, offset, sz)))

U8At ==
    \E offset \in Offsets :
        Call("u8_at", offset, 0, Out(reader, u8_at(reader, offset)))

BytesAt ==
    \E offset \in Offsets, n \in Counts :
        Call("bytes_at", offset, n, Out(reader, bytes_at(reader, offset, n)))

Range ==
    \E start \in Offsets, end \in Offsets :
        Call("range", start, end, Out(reader, range(reader, start, end)))

Subseq ==
    \E offset \in Offsets, n \in Counts :
        Call("subseq", offset, n, Out(reader, subseq(reader, offset, n)))

GetRemaining ==
    Call("get_remaining", 0, 0, Out(reader, get_remaining(reader)))

RelativeOffset ==
    \E abs_offset \in Offsets :
        Call("relative_offset", abs_offset, 0, Out(reader, relative_offset(reader, abs_offset)))

AdvanceTo ==
    \E offset \in Offsets :
        Call("advance_to", offset, 0, advance_to(reader, offset))

\* The consuming reader's advance_by takes a usize.
AdvanceBy ==
    \E n \in Steps :
        /\ reader.variant = "Consuming" => n >= 0
        /\ Call("advance_by", n, 0, advance_by(reader, n))

NextU8 ==
    Call("next_u8", 0, 0, next_u8(reader))

NextNBytes ==
    \E n \in Counts :
        Call("next_n_bytes", n, 0, next_n_bytes(reader, n))

NextBytes ==
    \E n \in Counts :
        Call("next_bytes", n, 0, next_bytes(reader, n))

NextNumnameNumend ==
    \E width \in Widths, numend \in {"be", "le"} :
        Call("next_numname_numend", width, IF numend = "be" THEN 0 ELSE 1,
             next_numname_numend(reader, width, numend))

NextNumname ==
    \E width \in Widths :
        Call("next_numname", width, 0, next_numname(reader, width))

NextI8 ==
    Call("next_i8", 0, 0, next_i8(reader))

NumnameNumendAt ==
    \E offset \in StartOffsets, width \in Widths, numend \in {"be", "le"} :
        Call("numname_numend_at", offset, <<width, numend>>,
             Out(reader, numname_numend_at(reader, offset, width, numend)))

NumnameAt ==
    \E offset \in StartOffsets, width \in Widths :
        Call("numname_at", offset, width, Out(reader, numname_at(reader, offset, width)))

NextNBytesAsReader ==
    \E n \in Counts :
        Call("next_n_bytes_as_reader", n, 0, next_n_bytes_as_reader(reader, n))

NextBytesAre ==
    \E prefix \in Prefixes :
        Call("next_bytes_are", prefix, 0, Out(reader, next_bytes_are(reader, prefix)))

NextNBytesAsReaderRetainOffset ==
    \E n \in Counts :
        Call("next_n_bytes_as_reader_retain_offset", n, 0,
             next_n_bytes_as_reader_retain_offset(reader, n))

SliceReader ==
    \E start \in Offsets, end \in Offsets :
        Call("slice_reader", start, end, Out(reader, slice_reader(reader, start, end)))

SliceReaderRetainOffset ==
    \E start \in Offsets, end \in Offsets :
        Call("slice_reader_retain_offset", start, end,
             Out(reader, slice_reader_retain_offset(reader, start, end)))

\* The construction of a memory-mapped reader from a file: once per behaviour.
FromFileWithOffset ==
    /\ last.op = "none"
    /\ \E k \in 0..MaxInitialOffset, open_ok \in BOOLEAN, lock_ok \in BOOLEAN,
          map_ok \in BOOLEAN :
          LET out == Mmap_from_file_with_offset(source, k, "Unknown", open_ok, lock_ok, map_ok)
          IN /\ reader' = out.r
             /\ file' = out.file
             /\ last' = [op |-> "from_file_with_offset", a |-> k, b |-> Len(source),
                         res |-> out.res, pre |-> reader]
    /\ UNCHANGED <<source, overflow_checks, run, encoded, sub_reader, received>>

\* The construction of a memory-mapped reader from a slice.
FromSliceWithOffset ==
    /\ last.op = "none"
    /\ \E k \in 0..MaxInitialOffset, map_ok \in BOOLEAN :
          LET out == Mmap_from_slice_with_offset(source, k, "Unknown", map_ok)
          IN /\ reader' = out.r
             /\ file' = out.file
             /\ last' = [op |-> "from_slice_with_offset", a |-> k, b |-> Len(source),
                         res |-> out.res, pre |-> reader]
    /\ UNCHANGED <<source, overflow_checks, run, encoded, sub_reader, received>>

\* The reader goes out of scope, also when a call on it has panicked.
Drop ==
    /\ reader.variant = "Mmap"
    /\ \E unlock_ok \in BOOLEAN :
          LET out == Mmap_drop(reader, file, unlock_ok)
          IN /\ reader' = out.r
             /\ file' = out.file
             /\ last' = [op |-> "drop", a |-> 0, b |-> 0, res |-> out.res, pre |-> reader]
    /\ UNCHANGED <<source, overflow_checks, run, encoded, sub_reader, received>>

\* A slicing call whose result the caller keeps: `let sub = reader.op(..)?`.
Keep(op, a, b, out) ==
    /\ reader.variant \notin {"None", "Consuming"}
    /\ sub_reader.variant = "None"
    /\ last.res.kind # "Panic"
    /\ reader' = out.r
    /\ sub_reader' = out.res.rdr
    /\ last' = [op |-> op, a |-> a, b |-> b, res |-> out.res, pre |-> reader]
    /\ run' = -1
    /\ UNCHANGED <<source, overflow_checks, encoded, file, received>>

KeepSliceReader ==
    \E start \in StartOffsets, end \in Offsets :
        Keep("slice_reader", start, end, Out(reader, slice_reader(reader, start, end)))

KeepSliceReaderRetainOffset ==
    \E start \in StartOffsets, end \in Offsets :
        Keep("slice_reader_retain_offset", start, end,
             Out(reader, slice_reader_retain_offset(reader, start, end)))

KeepNextNBytesAsReader ==
    \E n \in Counts :
        Keep("next_n_bytes_as_reader", n, 0, next_n_bytes_as_reader(reader, n))

KeepNextNBytesAsReaderRetainOffset ==
    \E n \in Counts :
        Keep("next_n_bytes_as_reader_retain_offset", n, 0,
             next_n_bytes_as_reader_retain_offset(reader, n))

\* The sub-reader is a struct of its own: it borrows the parent's bytes and
\* holds its position in a Cell of its own, so a call on it through &self
\* writes that Cell and leaves the parent's fields as they are.
\* SubCall_parent with the sub-reader writing the parent's position cell.
SubCall_parent_SharedCell(parent, out) == [parent EXCEPT !.position = out.r.position]

SubCall_parent(parent, out) == parent

\* A call op(a, b) on the sub-reader the caller kept.
SubCall(op, a, b, out) ==
    /\ sub_reader.variant # "None"
    /\ last.res.kind # "Panic"
    /\ sub_reader' = out.r
    /\ reader' = SubCall_parent(reader, out)
    /\ last' = [op |-> op, a |-> a, b |-> b, res |-> out.res, pre |-> sub_reader]
    /\ UNCHANGED <<source, overflow_checks, run, encoded, file, received>>

SubAdvanceTo ==
    \E offset \in Offsets :
        SubCall("sub.advance_to", offset, 0, advance_to(sub_reader, offset))

SubAdvanceBy ==
    \E n \in Steps :
        SubCall("sub.advance_by", n, 0, advance_by(sub_reader, n))

SubNextU8 ==
    SubCall("sub.next_u8", 0, 0, next_u8(sub_reader))

\* next_u8 called from one of several places that hold the reader by &.
Sites == 1..MaxSites

SharedNextU8 ==
    \E site \in Sites :
        /\ reader.variant \notin {"None", "Consuming"}
        /\ last.res.kind # "Panic"
        /\ LET out == next_u8(reader) IN
              /\ reader' = out.r
              /\ last' = [op |-> "next_u8", a |-> site, b |-> 0, res |-> out.res,
                          pre |-> reader]
              /\ received' = IF out.res.kind = "Ok"
                             THEN Append(received,
                                         [site |-> site, offset |-> current_offset(reader),
                                          byte |-> out.res.val[1]])
                             ELSE received
        /\ UNCHANGED <<source, overflow_checks, run, encoded, file, sub_reader>>

\* ---------------------------------------------------------- specifications
\* The cursor: construction, moving, reading at the cursor.
Next ==
    \/ AdvanceTo
    \/ AdvanceBy
    \/ NextU8
    \/ NextNBytes
    \/ NextNBytesAsReader
    \/ U8At
    \/ GetRemaining

Spec == Init /\ [][Next]_vars

\* Validation and the reads at an offset, from every cursor position.
NextAt ==
    \/ ValidateOffset
    \/ U8At
    \/ BytesAt
    \/ Range
    \/ Subseq
    \/ GetRemaining
    \/ RelativeOffset
    \/ AdvanceTo
    \/ NextU8

SpecAt == Init /\ [][NextAt]_vars

\* The multi-byte reads at the cursor, in every endidness.
InitNum == InitWith(Endidness)

NextNum ==
    \/ NextBytes
    \/ NextNumnameNumend
    \/ NextNumname
    \/ NextU8
    \/ AdvanceTo

SpecNum == InitNum /\ [][NextNum]_vars

\* Comparing the bytes at the cursor with a prefix, from every cursor position.
NextPrefix ==
    \/ NextBytesAre
    \/ NextU8
    \/ AdvanceTo

SpecPrefix == Init /\ [][NextPrefix]_vars

\* Child readers over a part of the parent, from every cursor position.
InitSlice == InitWith({"Big", "Little"})

NextSlice ==
    \/ SliceReader
    \/ SliceReaderRetainOffset
    \/ NextNBytesAsReader
    \/ NextNBytesAsReaderRetainOffset
    \/ AdvanceTo
    \/ NextU8

SpecSlice == InitSlice /\ [][NextSlice]_vars

\* Whole words: buffers of whole 64-bit words up to the 16 bytes of the
\* test data, in every endidness, read front to back.
BufferSizes == {n \in 0..MaxBuffer : n % 8 = 0}

InitWords == InitOver(BufferSizes, Endidness)

NextWords ==
    \/ NextNumname
    \/ NextNumnameNumend

SpecWords == InitWords /\ [][NextWords]_vars

\* The reads that pick the byte order from the reader's endidness, and the
\* 8-bit reads that have none to pick, over the same buffers.
NextDispatch ==
    \/ NextNumname
    \/ NumnameAt
    \/ NextU8
    \/ NextI8
    \/ U8At

SpecDispatch == InitWords /\ [][NextDispatch]_vars

\* Round trips: a reader over the bytes of one number, written in one byte
\* order, read back at the cursor and at an offset.
InitRound ==
    /\ overflow_checks \in BOOLEAN
    /\ \E T \in NUMBERS, numend \in {"be", "le"}, variant \in Variants,
          k \in 0..MaxInitialOffset :
          \E v \in BoundaryValues(T) :
              LET bytes == IF numend = "be" THEN to_be_bytes(v, T.width)
                           ELSE to_le_bytes(v, T.width)
                  e == IF numend = "be" THEN "Big" ELSE "Little"
              IN /\ source = bytes
                 /\ reader = from_slice_with_offset(variant, bytes, k, e)
                 /\ last = [op |-> "new", a |-> k, b |-> T.width, res |-> Ok(<<>>),
                            pre |-> from_slice_with_offset(variant, bytes, k, e)]
                 /\ encoded = [ident |-> T.ident, width |-> T.width, signed |-> T.signed,
                               value |-> v, numend |-> numend]
    /\ run = 0
    /\ file = NoFile
    /\ sub_reader = NoReader
    /\ received = <<>>

NextRound ==
    \/ NumnameNumendAt
    \/ NextNumnameNumend

SpecRound == InitRound /\ [][NextRound]_vars

\* The life of a memory-mapped reader: built from a file of up to MaxSize
\* bytes or from a slice, read, and dropped.
InitMmap ==
    /\ overflow_checks \in BOOLEAN
    /\ \E n \in 0..MaxSize : source = TEST_DATA(n)
    /\ reader = NoReader
    /\ last = [op |-> "none", a |-> 0, b |-> 0, res |-> Ok(<<>>), pre |-> NoReader]
    /\ run = 0
    /\ encoded = NoNumber
    /\ file = NoFile
    /\ sub_reader = NoReader
    /\ received = <<>>

NextMmap ==
    \/ FromFileWithOffset
    \/ FromSliceWithOffset
    \/ NextU8
    \/ U8At
    \/ AdvanceTo
    \/ Drop

SpecMmap == InitMmap /\ [][NextMmap]_vars

\* A parent and the sub-reader sliced out of it, both moved by the caller.
NextSub ==
    \/ KeepSliceReader
    \/ KeepSliceReaderRetainOffset
    \/ KeepNextNBytesAsReader
    \/ KeepNextNBytesAsReaderRetainOffset
    \/ SubAdvanceTo
    \/ SubAdvanceBy
    \/ SubNextU8
    \/ AdvanceTo
    \/ NextU8

SpecSub == Init /\ [][NextSub]_vars

\* One reader read from several call sites, one whole next_u8 at a time.
NextShared ==
    SharedNextU8

SpecShared == Init /\ [][NextShared]_vars

\* ================================================================== claims
\* The data index of the cursor of r, counted from the first source byte.
DataIndex(r) == current_offset(r) - r.initial_offset

\* The rules of validate(offset, length) as the specification words them,
\* over the integers.
ValidateRules(r, offset, length) ==
    IF length > 0 /\ remaining(r) = 0 THEN Err("NoMoreData", 0, 0)
    ELSE IF offset < lower_offset_limit(r) THEN Err("OffsetTooSmall", offset, 0)
    ELSE IF offset > upper_offset_limit(r) THEN Err("OffsetTooLarge", offset, 0)
    ELSE IF offset > upper_offset_limit(r) - length
         THEN Err("NotEnoughData", length, remaining(r))
    ELSE Ok(<<>>)

\* C1: validate_offset(offset, length) answers by the five rules in their
\* order, first match wins, for every offset, length and cursor position.
C1_ValidateRulesInOrder ==
    last.op = "validate_offset" =>
        last.res = ValidateRules(last.pre, last.a, last.b)

\* C2: a multi-byte read at the cursor (next_bytes, next_uN_be/le, next_uN)
\* asked for more bytes than remain fails and leaves current_offset() where
\* it was before the call.
C2_NextReadAtomic ==
    (/\ last.op \in {"next_bytes", "next_numname_numend", "next_numname"}
     /\ remaining(last.pre) < last.a)
        => /\ last.res.kind # "Ok"
           /\ current_offset(reader) = current_offset(last.pre)

\* C3: over n bytes with initial offset k, u8_at(o) is OffsetTooSmall(o) for
\* o < k, OffsetTooLarge(o) for o >= k + n, and byte o - k of the data between.
C3_U8AtWindow ==
    last.op = "u8_at" =>
        LET k == last.pre.initial_offset
            n == Len(source)
            o == last.a
        IN last.res = IF o < k THEN Err("OffsetTooSmall", o, 0)
                      ELSE IF o >= k + n THEN Err("OffsetTooLarge", o, 0)
                      ELSE Ok(<<source[o - k + 1]>>)

\* C4: u8_at, bytes_at, range, subseq, get_remaining, relative_offset and
\* validate_offset never panic: they return Ok or an Err value.
C4_NoPanic ==
    last.op \in {"u8_at", "bytes_at", "range", "subseq", "get_remaining",
                 "relative_offset", "validate_offset"}
        => last.res.kind # "Panic"

\* C5: advance_to(offset) with offset within [lower_offset_limit,
\* upper_offset_limit] succeeds and current_offset() is then offset.
C5_AdvanceToSetsOffset ==
    (/\ last.op = "advance_to"
     /\ lower_offset_limit(last.pre) <= last.a
     /\ last.a <= upper_offset_limit(last.pre))
        => /\ last.res.kind = "Ok"
           /\ current_offset(reader) = last.a

\* C6: next_n_bytes(n) with r bytes remaining, 0 < r < n, fails with
\* NotEnoughData(n, r) and does not move the cursor.
C6_NotEnoughData ==
    (/\ last.op = "next_n_bytes"
     /\ 0 < remaining(last.pre)
     /\ remaining(last.pre) < last.a)
        => /\ last.res = Err("NotEnoughData", last.a, remaining(last.pre))
           /\ current_offset(reader) = current_offset(last.pre)

C8_AfterConstruction ==
    last.op = "new" =>
        /\ current_offset(reader) = last.a
        /\ size(reader) = last.b
        /\ remaining(reader) = last.b
        /\ upper_offset_limit(reader) = last.a + last.b

C8_Witness ==
    /\ last.op = "new"
    /\ last.a > 0
    /\ last.b > 0

\* C9: size() successive next_u8 calls from construction all succeed and
\* return the bytes in order; before the i-th call current_offset() is the
\* initial offset plus i and remaining() is size() - i; after them
\* remaining() = 0 and the next next_u8 fails with NoMoreData.
C9_NextU8ReadsAll ==
    run >= 0 =>
        /\ run <= Len(source)
        /\ size(reader) = Len(source)
        /\ current_offset(reader) = reader.initial_offset + run
        /\ remaining(reader) = size(reader) - run
        /\ (last.op = "next_u8" /\ last.res.kind = "Ok")
               => last.res.val = <<source[run]>>
        /\ (last.op = "next_u8" /\ last.res.kind # "Ok")
               => run = Len(source) /\ last.res = Err("NoMoreData", 0, 0)
        /\ run = Len(source)
               => remaining(reader) = 0 /\ next_u8(reader).res = Err("NoMoreData", 0, 0)

C9_Witness ==
    /\ run = Len(source)
    /\ run >= 2
    /\ reader.initial_offset > 0
    /\ last.op = "next_u8"
    /\ last.res = Err("NoMoreData", 0, 0)

\* C10: next_n_bytes(n) with the cursor at data index p and at least n bytes
\* remaining returns the bytes at data indices [p, p + n) and advances by n,
\* and get_remaining() is then the bytes from index p + n to the end.
C10_NextNBytes ==
    (/\ last.op = "next_n_bytes"
     /\ DataIndex(last.pre) + last.a <= Len(source))
        => LET p == DataIndex(last.pre) IN
           /\ last.res = Ok(Slice(source, p, p + last.a))
           /\ current_offset(reader) = current_offset(last.pre) + last.a
           /\ get_remaining(reader) = Ok(Slice(source, p + last.a, Len(source)))

\* C11: next_bytes_are(prefix), with at least Len(prefix) bytes left at the
\* cursor, returns Ok(true) exactly when those bytes equal prefix byte for
\* byte, Ok(false) otherwise, and leaves the reader as it was.
C11_NextBytesAre ==
    (/\ last.op = "next_bytes_are"
     /\ DataIndex(last.pre) + Len(last.a) <= Len(source))
        => LET p == DataIndex(last.pre) IN
           /\ last.res = Ok(<<Slice(source, p, p + Len(last.a)) = last.a>>)
           /\ reader = last.pre

\* C12: slice_reader(start, end) with start <= end inside the parent's range
\* [k, k + n] returns a child with initial offset 0 and size end - start
\* whose i-th byte is the parent's byte at offset start + i, and with the
\* parent's endidness.
C12_SliceReader ==
    (/\ last.op = "slice_reader"
     /\ last.pre.initial_offset <= last.a
     /\ last.a <= last.b
     /\ last.b <= last.pre.initial_offset + Len(source))
        => LET k == last.pre.initial_offset
               child == last.res.rdr
           IN /\ last.res.kind = "Ok"
              /\ child.initial_offset = 0
              /\ current_offset(child) = 0
              /\ size(child) = last.b - last.a
              /\ child.data = Slice(source, last.a - k, last.b - k)
              /\ child.endidness = last.pre.endidness

\* C13: the child returned by slice_reader_retain_offset(start, end) has
\* start as its initial offset, wherever the parent's cursor is.
C13_RetainOffsetIsStart ==
    (/\ last.op = "slice_reader_retain_offset"
     /\ last.res.kind = "Ok")
        => initial_offset(last.res.rdr) = last.a

\* C14: next_n_bytes_as_reader(n) and next_n_bytes_as_reader_retain_offset(n)
\* either return a child over the next n bytes and advance the parent by n,
\* or return an error and leave the parent's cursor where it was; the
\* retain-offset child starts, and has its lower limit and its cursor, at the
\* parent's offset from before the call, and its upper limit n further.
C14_AsReaderAtomic ==
    last.op \in {"next_n_bytes_as_reader", "next_n_bytes_as_reader_retain_offset"}
        => LET p == DataIndex(last.pre)
               before == current_offset(last.pre)
               child == last.res.rdr
           IN \/ /\ last.res.kind = "Err"
                 /\ current_offset(reader) = before
              \/ /\ last.res.kind = "Ok"
                 /\ current_offset(reader) = before + last.a
                 /\ child.data = Slice(source, p, p + last.a)
                 /\ size(child) = last.a
                 /\ last.op = "next_n_bytes_as_reader_retain_offset"
                        => /\ initial_offset(child) = before
                           /\ lower_offset_limit(child) = before
                           /\ current_offset(child) = before
                           /\ upper_offset_limit(child) = before + last.a

\* r with its endidness set to e.
WithEndidness(r, e) == [r EXCEPT !.endidness = e]

LE_U32_DATA == <<50462976, 117835012, 185207048, 252579084>>
BE_U32_DATA == <<66051, 67438087, 134810123, 202182159>>

\* The number n written with w digits.
DigitsOf(n, w) == [j \in 0..(w - 1) |-> (n \div (256 ^ j)) % 256]

C17_RoundTrip ==
    (/\ encoded # NoNumber
     /\ DataIndex(last.pre) = 0
     /\ \/ /\ last.op = "numname_numend_at"
           /\ last.a = last.pre.initial_offset
           /\ last.b = <<encoded.width, encoded.numend>>
        \/ /\ last.op = "next_numname_numend"
           /\ last.a = encoded.width
           /\ last.b = (IF encoded.numend = "be" THEN 0 ELSE 1))
        => last.res = Ok(<<encoded.value>>)

\* C18: in every state reached by advance_to, advance_by, next_u8,
\* next_n_bytes and reads at an offset, on every reader and for every initial
\* offset k, k <= current_offset() <= k + size().  (A state in which the
\* last call panicked is not counted: the program has ended.)
C18_CursorInRange ==
    last.res.kind # "Panic" =>
        /\ reader.initial_offset <= current_offset(reader)
        /\ current_offset(reader) <= reader.initial_offset + size(reader)

\* C19: in every reachable state remaining() = upper_offset_limit() -
\* current_offset() = (k + size()) - current_offset(), k being the initial
\* offset given at construction, and the value is not negative.  (A state in
\* which the last call panicked is not counted: the program has ended.)
C19_RemainingIsUpperLessCursor ==
    last.res.kind # "Panic" =>
        /\ remaining(reader) = upper_offset_limit(reader) - current_offset(reader)
        /\ remaining(reader) = (reader.initial_offset + size(reader)) - current_offset(reader)
        /\ remaining(reader) >= 0

\* C20: a memory-mapped reader built from a file holds the shared lock, taken
\* once during construction, in every state in which it exists; when
\* construction fails there is no reader and nothing stays locked; unlock is
\* called once, by the drop, whatever the calls in between returned; a reader
\* built from a slice never has lock or unlock called.
C20_LockHeldUntilDrop ==
    /\ (reader.variant = "Mmap" /\ reader.maybe_mapped_file = "Some")
           => /\ file.open /\ file.locked
              /\ file.lock_calls = 1
              /\ file.unlock_calls = 0
    /\ (last.op = "from_file_with_offset" /\ last.res.kind = "Err")
           => /\ reader = NoReader
              /\ ~file.locked
              /\ file.unlock_calls = 0
    /\ (last.op = "from_file_with_offset" /\ last.res.kind = "Ok")
           => reader.variant = "Mmap" /\ reader.maybe_mapped_file = "Some"
    /\ (last.op = "drop" /\ last.pre.maybe_mapped_file = "Some")
           => /\ reader = NoReader
              /\ ~file.locked
              /\ file.lock_calls = 1
              /\ file.unlock_calls = 1
    /\ file.unlock_calls > 0 => last.op = "drop"
    /\ (\/ (reader.variant = "Mmap" /\ reader.maybe_mapped_file = "None")
        \/ last.op = "from_slice_with_offset"
        \/ (last.op = "drop" /\ last.pre.maybe_mapped_file = "None"))
           => file = NoFile

C20_Witness ==
    /\ last.op = "drop"
    /\ last.pre.maybe_mapped_file = "Some"
    /\ DataIndex(last.pre) > 0
    /\ file.unlock_calls = 1

\* C21: when from_file_with_offset fails at the mapping step, after the lock
\* has been taken, the lock has been released by a call to unlock by the time
\* the error is returned.
C21_UnlockOnFailedMap ==
    (/\ last.op = "from_file_with_offset"
     /\ last.res = Err("IoError", 3, 0))
        => /\ ~file.locked
           /\ file.unlock_calls = 1

\* C22: the consuming reader's current_offset() is always (original size -
\* bytes still in the buffer) + the initial offset given at construction, the
\* buffer is always what is left of the source, no call makes
\* current_offset() smaller, and advance_to to an offset below the cursor
\* fails and leaves the buffer as it was.
C22_ConsumingNeverRewinds ==
    reader.variant = "Consuming" =>
        /\ current_offset(reader)
               = (Len(source) - Len(reader.data)) + reader.initial_offset
        /\ reader.data = Slice(source, Len(source) - Len(reader.data), Len(source))
        /\ current_offset(reader) >= current_offset(last.pre)
        /\ Len(reader.data) <= Len(last.pre.data)
        /\ (last.op = "advance_to" /\ last.a < current_offset(last.pre))
               => /\ last.res.kind # "Ok"
                  /\ reader = last.pre

C22_Witness ==
    /\ reader.variant = "Consuming"
    /\ last.op = "advance_to"
    /\ DataIndex(last.pre) >= 2
    /\ last.a >= reader.initial_offset
    /\ last.a < current_offset(last.pre)


\* C23: whenever current_offset() + n lies within [lower_offset_limit(),
\* upper_offset_limit()], advance_by(n) succeeds, current_offset() grows by
\* exactly n and remaining() shrinks by exactly n, on every reader and with
\* every initial offset.
C23_AdvanceBy ==
    (/\ last.op = "advance_by"
     /\ current_offset(last.pre) + last.a >= lower_offset_limit(last.pre)
     /\ current_offset(last.pre) + last.a <= upper_offset_limit(last.pre))
        => /\ last.res.kind = "Ok"
           /\ current_offset(reader) = current_offset(last.pre) + last.a
           /\ remaining(reader) = remaining(last.pre) - last.a


\* C24: relative_offset(abs) validates abs and, for every abs within
\* [lower_offset_limit(), upper_offset_limit()], above or below the cursor,
\* returns abs relative to current_offset() without wrapping and without
\* moving the cursor; outside the window it returns the offset error.
C24_RelativeOffset ==
    last.op = "relative_offset" =>
        /\ reader = last.pre
        /\ last.a < lower_offset_limit(last.pre)
               => last.res = Err("OffsetTooSmall", last.a, 0)
        /\ last.a > upper_offset_limit(last.pre)
               => last.res = Err("OffsetTooLarge", last.a, 0)
        /\ (/\ last.a >= lower_offset_limit(last.pre)
            /\ last.a <= upper_offset_limit(last.pre))
               => /\ last.res.kind = "Ok"
                  /\ \/ last.res.val = <<last.a - current_offset(last.pre)>>
                     \/ last.res.val = <<current_offset(last.pre) - last.a>>


\* C25: on the readers that can be repositioned (RandomAccess, SliceRef,
\* Mmap), after any reads, advance_to(lower_offset_limit()) succeeds and puts
\* the cursor back on the first byte, so that next_u8 gives again what it
\* gave on the first pass.
C25_Rewind ==
    (/\ reader.variant \in {"RandomAccess", "SliceRef", "Mmap"}
     /\ last.op = "advance_to"
     /\ last.a = lower_offset_limit(last.pre))
        => /\ last.res.kind = "Ok"
           /\ current_offset(reader) = lower_offset_limit(reader)
           /\ reader.data = source
           /\ next_u8(reader).res
                  = IF source = <<>> THEN Err("NoMoreData", 0, 0)
                    ELSE Ok(<<source[1]>>)


\* The reader as it was built, with the cursor on the first byte.
Rewound(r) == from_slice_with_offset(r.variant, source, r.initial_offset, r.endidness)

\* C26: the outcome of a read at an offset (u8_at, bytes_at, range, subseq)
\* is the one the same call has on the freshly built reader: it depends on
\* the data, the initial offset and the arguments, and not on where the
\* cursor is.
C26_AtReadsIgnoreCursor ==
    /\ last.op = "u8_at" => last.res = u8_at(Rewound(last.pre), last.a)
    /\ last.op = "bytes_at" => last.res = bytes_at(Rewound(last.pre), last.a, last.b)
    /\ last.op = "range" => last.res = range(Rewound(last.pre), last.a, last.b)
    /\ last.op = "subseq" => last.res = subseq(Rewound(last.pre), last.a, last.b)


SubOps == {"sub.advance_to", "sub.advance_by", "sub.next_u8"}

C28_SharedNextU8 ==
    /\ Len(received) <= Len(source)
    /\ \A i \in 1..Len(received) :
           /\ received[i].offset = reader.initial_offset + (i - 1)
           /\ received[i].byte = source[i]
    /\ (reader.variant # "Consuming" /\ last.op = "next_u8")
           => /\ current_offset(reader) = reader.initial_offset + Len(received)
              /\ last.res.kind # "Ok"
                     => /\ last.res = Err("NoMoreData", 0, 0)
                        /\ Len(received) = Len(source)
                        /\ reader = last.pre

C28_Witness ==
    /\ Len(received) = MaxSize
    /\ \E i \in 1..Len(received), j \in 1..Len(received) :
           i < j /\ received[i].site > received[j].site
    /\ last.op = "next_u8"
    /\ last.res.kind = "Err"


\* C29: on the readers that can be repositioned, when advance_by(n) with
\* n > 0 has succeeded, advance_by(-n) called next succeeds and puts
\* current_offset() and remaining() back to what they were.
C29_AdvanceByInvertible ==
    (/\ reader.variant \in {"RandomAccess", "SliceRef", "Mmap"}
     /\ last.op = "advance_by"
     /\ last.a > 0
     /\ last.res.kind = "Ok")
        => LET back == advance_by(reader, 0 - last.a) IN
           /\ back.res.kind = "Ok"
           /\ current_offset(back.r) = current_offset(last.pre)
           /\ remaining(back.r) = remaining(last.pre)


\* C30: advance_by(n) with n < 0 and current_offset() + n below
\* lower_offset_limit(), also when the sum is negative, fails with
\* OffsetTooSmall and leaves the cursor where it was.
C30_BackwardBelowLower ==
    (/\ reader.variant \in {"RandomAccess", "SliceRef", "Mmap"}
     /\ last.op = "advance_by"
     /\ last.a < 0
     /\ current_offset(last.pre) + last.a < lower_offset_limit(last.pre))
        => /\ last.res.kind = "Err"
           /\ last.res.err = "OffsetTooSmall"
           /\ reader = last.pre

=============================================================================
